---------------------------- MODULE Spec2Model ----------------------------
(***************************************************************************)
(* Model of include/eos/render/opencv/draw_utils.hpp: draw_wireframe and   *)
(* draw_texcoords.                                                         *)
(*                                                                         *)
(* Numbers.  The code computes in float.  The model computes exactly, on   *)
(* rationals: a screen point is a record [x, y, z, d] standing for the     *)
(* point (x/d, y/d, z/d) with d > 0, and a texture coordinate is a record  *)
(* [u, v, d] standing for (u/d, v/d).  Every input the model draws is      *)
(* exactly representable in float, so no rounding is lost.                 *)
(*                                                                         *)
(* Canvas.  A cv::Mat is a record [rows, cols, fill, over].  All canvases   *)
(* are 8-bit, 4 channels; a pixel is a 4-tuple of channel values.  over    *)
(* maps a pixel value to the set of the pixels that were written and hold  *)
(* it now; a pixel never written holds the canvas's initial content,       *)
(* Background(fill, p).  A pixel is <<column, row>>.                       *)
(***************************************************************************)
EXTENDS Integers, Sequences, FiniteSets

VARIABLES
    mesh,        \* core::Mesh: [vertices, tvi, texcoords]
    modelview,   \* Eigen::Matrix4f argument of draw_wireframe
    projection,  \* Eigen::Matrix4f argument of draw_wireframe
    viewport,    \* Eigen::Vector4f argument of draw_wireframe
    color,       \* cv::Scalar argument of draw_wireframe
    image,       \* the caller's cv::Mat
    before,      \* the caller's cv::Mat as it was when the last call began
    given,       \* the cv::Mat argument the last draw_texcoords call received
    ret,         \* the cv::Mat the last draw_texcoords call returned
    calls,       \* the cv::line calls the last call issued, in order
    last,        \* the last operation
    order,       \* classifier harness: the index order of the triangle
    ccw          \* classifier harness: the result of the orientation test

vars == <<mesh, modelview, projection, viewport, color, image, before, given,
          ret, calls, last, order, ccw>>

---------------------------------------------------------------------------
(* Bounds of the model. *)

\* The x coordinates of the classifier harness's vertices range over
\* -MaxCoord..MaxCoord.
MaxCoord == 1

\* The caller's mesh holds at most MaxTris triangles.
MaxTris == 2

---------------------------------------------------------------------------
(* Linear algebra (Eigen). *)

Dot4(r, v) == r[1] * v[1] + r[2] * v[2] + r[3] * v[3] + r[4] * v[4]

MatVec(M, v) == <<Dot4(M[1], v), Dot4(M[2], v), Dot4(M[3], v), Dot4(M[4], v)>>

Identity4 == << <<1, 0, 0, 0>>, <<0, 1, 0, 0>>, <<0, 0, 1, 0>>, <<0, 0, 0, 1>> >>

\* A model-view matrix that mirrors x: it turns every winding around.
MirrorX4 == << <<-1, 0, 0, 0>>, <<0, 1, 0, 0>>, <<0, 0, 1, 0>>, <<0, 0, 0, 1>> >>

\* A perspective-like projection: w = z + 2.
Perspective4 == << <<1, 0, 0, 0>>, <<0, 1, 0, 0>>, <<0, 0, 1, 0>>, <<0, 0, 1, 2>> >>

(* project(point, modelview, projection, viewport): model-view, projection, *)
(* perspective division, then the viewport mapping                          *)
(*   screen_x = viewport.x + (ndc_x + 1)/2 * viewport.width                 *)
(*   screen_y = viewport.y + (1 - ndc_y)/2 * viewport.height                *)
(* The result is the rational point (x/d, y/d, z/d), d = 2|w|.  w # 0 is    *)
(* the caller's precondition.                                               *)
project(point, mv, pr, vp) ==
    LET clip == MatVec(pr, MatVec(mv, <<point[1], point[2], point[3], 1>>))
        w    == clip[4]
        s    == IF w < 0 THEN -1 ELSE 1
    IN  [x |-> s * (2 * vp[1] * w + (clip[1] + w) * vp[3]),
         y |-> s * (2 * vp[2] * w + (w - clip[2]) * vp[4]),
         z |-> s * 2 * clip[3],
         d |-> s * 2 * w]

(* render::detail::are_vertices_ccw_in_screen_space(v0, v1, v2): the sign   *)
(* of the cross product of v1 - v0 and v2 - v0.  With y growing downwards a *)
(* counter-clockwise triangle has a negative one.  The differences are      *)
(* scaled by the (positive) denominators.                                   *)
are_vertices_ccw_in_screen_space(v0, v1, v2) ==
    LET dx01 == v1.x * v0.d - v0.x * v1.d
        dy01 == v1.y * v0.d - v0.y * v1.d
        dx02 == v2.x * v0.d - v0.x * v2.d
        dy02 == v2.y * v0.d - v0.y * v2.d
    IN  dx01 * dy02 - dy01 * dx02 < 0

\* p.head<2>(): the x, y components of a projected point.
head2(p) == [x |-> p.x, y |-> p.y, d |-> p.d]

---------------------------------------------------------------------------
(* Number conversions. *)

Abs(n) == IF n < 0 THEN -n ELSE n

Min(a, b) == IF a <= b THEN a ELSE b

Max(a, b) == IF a >= b THEN a ELSE b

\* float -> int, as C++ converts: n/d (d > 0) truncated towards zero.
Trunc(n, d) == IF n >= 0 THEN n \div d ELSE -((-n) \div d)

\* cv::saturate_cast<int>(float), which is cvRound: n/d (d > 0) rounded to
\* the nearest integer, a tie to the even one.
RoundHalfEven(n, d) ==
    LET q == n \div d
        r == n % d
    IN  IF 2 * r < d THEN q
        ELSE IF 2 * r > d THEN q + 1
        ELSE IF q % 2 = 0 THEN q ELSE q + 1

\* cv::saturate_cast<uchar>: one channel of a cv::Scalar as an 8-bit value.
SaturateU8(v) == IF v < 0 THEN 0 ELSE IF v > 255 THEN 255 ELSE v

\* A cv::Scalar written into a 4-channel 8-bit pixel.
ToPixel(s) == <<SaturateU8(s[1]), SaturateU8(s[2]), SaturateU8(s[3]), SaturateU8(s[4])>>

\* cv::Scalar(v0, v1, v2): the fourth component defaults to 0.
Scalar3(v0, v1, v2) == <<v0, v1, v2, 0>>

---------------------------------------------------------------------------
(* The canvas (cv::Mat) and the line primitive (cv::line). *)

\* No pixel written yet.
NoOver == [px \in {} |-> {}]

\* cv::Mat(): no rows, no columns, no data.
EmptyMat == [rows |-> 0, cols |-> 0, fill |-> <<<<0, 0, 0, 0>>, <<0, 0, 0, 0>>>>, over |-> NoOver]

\* cv::Mat(rows, cols, CV_8UC4, s): every pixel set to s.
NewMat(rows, cols, s) ==
    [rows |-> rows, cols |-> cols, fill |-> <<ToPixel(s), ToPixel(s)>>, over |-> NoOver]

\* cv::Mat::empty().
empty(m) == m.rows = 0 \/ m.cols = 0

\* The initial content of a canvas at p: fill[1] on the even squares and
\* fill[2] on the odd ones (a uniform canvas has both alike).
Background(fill, p) == IF (p[1] + p[2]) % 2 = 0 THEN fill[1] ELSE fill[2]

\* The pixel of m in column p[1], row p[2].
PixelAt(m, p) ==
    IF \E px \in DOMAIN m.over : p \in m.over[px]
    THEN CHOOSE px \in DOMAIN m.over : p \in m.over[px]
    ELSE Background(m.fill, p)

\* The pixels of m that were written.
Written(m) == UNION {m.over[px] : px \in DOMAIN m.over}

Inside(m, p) == 0 <= p[1] /\ p[1] < m.cols /\ 0 <= p[2] /\ p[2] < m.rows

\* n/d rounded to the nearest integer, d # 0.
RoundDiv(n, d) ==
    LET nn == IF d < 0 THEN -n ELSE n
        dd == Abs(d)
    IN  (2 * nn + dd) \div (2 * dd)

\* The pixels of the segment from a to b: one per column when the segment is
\* flatter than 45 degrees, one per row otherwise, both ends included.
Segment(a, b) ==
    LET dx == b[1] - a[1]
        dy == b[2] - a[2]
    IN  IF dx = 0 /\ dy = 0 THEN {a}
        ELSE IF Abs(dx) >= Abs(dy)
        THEN {<<x, a[2] + RoundDiv((x - a[1]) * dy, dx)>> : x \in Min(a[1], b[1])..Max(a[1], b[1])}
        ELSE {<<a[1] + RoundDiv((y - a[2]) * dx, dy), y>> : y \in Min(a[2], b[2])..Max(a[2], b[2])}

\* The pixels cv::line(m, a, b, ...) writes: the segment, clipped to m.
LinePixels(m, a, b) == {p \in Segment(a, b) : Inside(m, p)}

\* cv::line(m, a, b, c), thickness 1: every pixel of the clipped segment is
\* overwritten with c.
line(m, a, b, c) ==
    LET pts == LinePixels(m, a, b)
        now(px) == IF px = ToPixel(c) THEN pts \cup (IF px \in DOMAIN m.over THEN m.over[px] ELSE {})
                   ELSE m.over[px] \ pts
    IN  [m EXCEPT !.over = [px \in {q \in (DOMAIN m.over) \cup {ToPixel(c)} : now(q) # {}} |->
                               now(px)]]

\* One cv::line call of a renderer: the canvas drawn on and the call logged.
DrawLine(st, a, b, c) ==
    [image |-> line(st.image, a, b, c),
     calls |-> Append(st.calls, [pt1 |-> a, pt2 |-> b, color |-> c])]

---------------------------------------------------------------------------
(* draw_wireframe. *)

\* cv::Point(p.x(), p.y()): the float coordinates converted to int.
Point(p) == <<Trunc(p.x, p.d), Trunc(p.y, p.d)>>

\* The projections p1, p2, p3 of a triangle's three vertices; the indices of
\* the mesh count from 0.
Projected(m, triangle, mv, pr, vp) ==
    <<project(m.vertices[triangle[1] + 1], mv, pr, vp),
      project(m.vertices[triangle[2] + 1], mv, pr, vp),
      project(m.vertices[triangle[3] + 1], mv, pr, vp)>>

\* Mutant: the last two arguments of the orientation test exchanged.
FrontFacing_Exchanged(p1, p2, p3) ==
    are_vertices_ccw_in_screen_space(head2(p1), head2(p3), head2(p2))

\* Mutant: p2 passed twice to the orientation test.
FrontFacing_Repeated(p1, p2, p3) ==
    are_vertices_ccw_in_screen_space(head2(p1), head2(p2), head2(p2))

\* The condition of the if: the orientation test on p1, p2, p3 in this order.
FrontFacing(p1, p2, p3) ==
    are_vertices_ccw_in_screen_space(head2(p1), head2(p2), head2(p3))

\* Mutant: the closing edge p3-p1 is left out.
DrawEdges_TwoEdges(st, p1, p2, p3, c) ==
    DrawLine(DrawLine(st, Point(p1), Point(p2), c), Point(p2), Point(p3), c)

\* Mutant: the edges drawn in the order p1-p2, p3-p1, p2-p3.
DrawEdges_Reordered(st, p1, p2, p3, c) ==
    DrawLine(DrawLine(DrawLine(st, Point(p1), Point(p2), c),
                      Point(p3), Point(p1), c),
             Point(p2), Point(p3), c)

\* Mutant: the edges are blended half and half with what the canvas holds
\* at p1 instead of overwriting it.
DrawEdges_Blended(st, p1, p2, p3, c) ==
    LET old == IF Inside(st.image, Point(p1)) THEN PixelAt(st.image, Point(p1)) ELSE c
        mix == <<(c[1] + old[1]) \div 2, (c[2] + old[2]) \div 2,
                 (c[3] + old[3]) \div 2, (c[4] + old[4]) \div 2>>
    IN  DrawLine(DrawLine(DrawLine(st, Point(p1), Point(p2), mix),
                          Point(p2), Point(p3), mix),
                 Point(p3), Point(p1), mix)

\* The body of the if: the three edges, drawn in this order.
DrawEdges(st, p1, p2, p3, c) ==
    DrawLine(DrawLine(DrawLine(st, Point(p1), Point(p2), c),
                      Point(p2), Point(p3), c),
             Point(p3), Point(p1), c)

\* Mutant: no culling, every triangle is drawn.
WireframeTriangle_NoCull(st, m, triangle, mv, pr, vp, c) ==
    LET p == Projected(m, triangle, mv, pr, vp)
    IN  DrawEdges(st, p[1], p[2], p[3], c)

\* One iteration of the loop over mesh.tvi.
WireframeTriangle(st, m, triangle, mv, pr, vp, c) ==
    LET p == Projected(m, triangle, mv, pr, vp)
    IN  IF FrontFacing(p[1], p[2], p[3])
        THEN DrawEdges(st, p[1], p[2], p[3], c)
        ELSE st

RECURSIVE WireframeLoop(_, _, _, _, _, _, _)
\* The loop over mesh.tvi, from triangle number i on.
WireframeLoop(st, m, i, mv, pr, vp, c) ==
    IF i > Len(m.tvi) THEN st
    ELSE WireframeLoop(WireframeTriangle(st, m, m.tvi[i], mv, pr, vp, c),
                       m, i + 1, mv, pr, vp, c)

\* draw_wireframe(image, mesh, modelview, projection, viewport, color): the
\* canvas after the call, and the cv::line calls it made.
draw_wireframe(img, m, mv, pr, vp, c) ==
    WireframeLoop([image |-> img, calls |-> <<>>], m, 1, mv, pr, vp, c)

\* The default of the parameter color: cv::Scalar(0, 255, 0, 255).
DefaultColor == <<0, 255, 0, 255>>

---------------------------------------------------------------------------
(* draw_texcoords. *)

\* The side of the canvas draw_texcoords allocates.
DefaultSize == 512

\* Scalar(255.0f, 0.0f, 0.0f): the colour of every edge.
TexcoordColor == Scalar3(255, 0, 0)

\* Mutant: U scaled by the rows and V by the columns.
Point2f_Swapped(m, i, img) ==
    LET t == m.texcoords[i + 1]
    IN  [x |-> t.u * img.rows, y |-> t.v * img.cols, d |-> t.d]

\* Point2f(texcoords[i][0] * image.cols, texcoords[i][1] * image.rows).
Point2f(m, i, img) ==
    LET t == m.texcoords[i + 1]
    IN  [x |-> t.u * img.cols, y |-> t.v * img.rows, d |-> t.d]

\* cv::line takes cv::Point: a Point2f is converted by saturate_cast<int>.
ToPoint(q) == <<RoundHalfEven(q.x, q.d), RoundHalfEven(q.y, q.d)>>

\* One edge: cv::line(image, Point2f(i), Point2f(j), Scalar(255, 0, 0)).
TexcoordEdge(st, m, i, j) ==
    DrawLine(st, ToPoint(Point2f(m, i, st.image)), ToPoint(Point2f(m, j, st.image)),
             TexcoordColor)

\* One iteration of the loop over mesh.tvi.
TexcoordTriangle(st, m, triIdx) ==
    TexcoordEdge(TexcoordEdge(TexcoordEdge(st, m, triIdx[1], triIdx[2]),
                              m, triIdx[2], triIdx[3]),
                 m, triIdx[3], triIdx[1])

RECURSIVE TexcoordLoop(_, _, _)
\* The loop over mesh.tvi, from triangle number i on.
TexcoordLoop(st, m, i) ==
    IF i > Len(m.tvi) THEN st
    ELSE TexcoordLoop(TexcoordTriangle(st, m, m.tvi[i]), m, i + 1)

\* Mutant: the canvas allocated is filled with Scalar(0, 0, 0), alpha 0.
Canvas_Transparent(img) ==
    IF empty(img) THEN NewMat(DefaultSize, DefaultSize, Scalar3(0, 0, 0)) ELSE img

\* if (image.empty()) image = cv::Mat(512, 512, CV_8UC4, Scalar(0, 0, 0, 255)).
Canvas(img) ==
    IF empty(img) THEN NewMat(DefaultSize, DefaultSize, <<0, 0, 0, 255>>) ELSE img

\* Mutant: a canvas is allocated whether or not one was supplied.
draw_texcoords_Fresh(m, img) ==
    TexcoordLoop([image |-> Canvas(EmptyMat), calls |-> <<>>], m, 1)

\* draw_texcoords(mesh, image): the canvas returned, and the cv::line calls made.
draw_texcoords(m, img) ==
    TexcoordLoop([image |-> Canvas(img), calls |-> <<>>], m, 1)

---------------------------------------------------------------------------
(* The inputs the caller draws from. *)

\* The vertices of the caller's mesh, numbered from 0: four corners and the
\* centre, at different depths.
MeshVertices == << <<-1, -1, 0>>, <<1, -1, 0>>, <<-1, 1, 0>>, <<1, 1, 1>>, <<0, 0, 2>> >>

\* The texture coordinate of every vertex: (0,0), (1,0), (0,1), (1/2,1/2),
\* (1/4,3/4).
MeshTexcoords ==
    << [u |-> 0, v |-> 0, d |-> 1], [u |-> 1, v |-> 0, d |-> 1],
       [u |-> 0, v |-> 1, d |-> 1], [u |-> 1, v |-> 1, d |-> 2],
       [u |-> 1, v |-> 3, d |-> 4] >>

\* The triangles the caller adds: one wound counter-clockwise (seen along -z,
\* y up), the same reversed, its neighbour across the edge 1-2, three
\* vertices on one line, and one with a vertex repeated.
TriangleChoices ==
    { <<0, 1, 2>>, <<2, 1, 0>>, <<1, 3, 2>>, <<0, 4, 3>>, <<0, 0, 1>> }

\* Model-view, projection and viewport (x, y, width, height) of the caller.
TransformChoices ==
    { [mv |-> Identity4, pr |-> Identity4,    vp |-> <<0, 0, 4, 4>>],
      [mv |-> MirrorX4,  pr |-> Identity4,    vp |-> <<0, 0, 4, 4>>],
      [mv |-> Identity4, pr |-> Perspective4, vp |-> <<-2, 0, 6, 5>>] }

\* The triangles of the mesh whose texture coordinates are drawn.
TexTriangleChoices == { <<0, 1, 2>>, <<2, 1, 0>>, <<3, 4, 0>> }

ColorChoices == { DefaultColor, <<0, 0, 255, 255>> }

\* Classifier harness: the (x, y) positions of a vertex, the depths of the
\* three vertices (they matter under Perspective4 alone), and the orders in
\* which a triangle can index them.
GridPoints == (-MaxCoord..MaxCoord) \X (-1..1)

Depths == <<0, 1, 2>>

IndexOrders ==
    { <<0, 1, 2>>, <<1, 2, 0>>, <<2, 0, 1>>, <<0, 2, 1>>, <<2, 1, 0>>, <<1, 0, 2>> }

\* The caller's canvases: one of no rows, and a chequered one of 4 rows and
\* 5 columns whose odd squares are half transparent.
CanvasChoices ==
    { [EmptyMat EXCEPT !.cols = 3],
      [NewMat(4, 5, <<10, 20, 30, 255>>) EXCEPT !.fill[2] = <<200, 100, 50, 128>>] }

---------------------------------------------------------------------------
(* The caller: builds a mesh, then renders it onto its canvas. *)

InitWith(m, transforms, canvases) ==
    /\ mesh = m
    /\ \E t \in transforms :
          /\ modelview = t.mv
          /\ projection = t.pr
          /\ viewport = t.vp
    /\ color = DefaultColor
    /\ image \in canvases
    /\ before = image
    /\ given = EmptyMat
    /\ ret = EmptyMat
    /\ calls = <<>>
    /\ last = "none"
    /\ order = <<0, 1, 2>>
    /\ ccw = FALSE

EmptyMesh == [vertices |-> MeshVertices, tvi |-> <<>>, texcoords |-> MeshTexcoords]

Init == InitWith(EmptyMesh, TransformChoices, CanvasChoices)

\* The caller appends a triangle to mesh.tvi; the mesh is built before it is
\* rendered.
AddTriangle(t) ==
    /\ last \in {"none", "caller"}
    /\ Len(mesh.tvi) < MaxTris
    /\ mesh' = [mesh EXCEPT !.tvi = Append(@, t)]
    /\ last' = "caller"
    /\ UNCHANGED <<modelview, projection, viewport, color, image, before, given,
                   ret, calls, order, ccw>>

\* draw_wireframe(image, mesh, modelview, projection, viewport, c).  The
\* cv::Mat passed by value shares its pixels with the caller's.
DrawWireframe(c) ==
    LET st == draw_wireframe(image, mesh, modelview, projection, viewport, c)
    IN  /\ color' = c
        /\ before' = image
        /\ image' = st.image
        /\ calls' = st.calls
        /\ last' = "draw_wireframe"
        /\ UNCHANGED <<mesh, modelview, projection, viewport, given, ret, order, ccw>>

Next ==
    \/ \E t \in TriangleChoices : AddTriangle(t)
    \/ \E c \in ColorChoices : DrawWireframe(c)

Spec == Init /\ [][Next]_vars

---------------------------------------------------------------------------
(* The caller of draw_texcoords. *)

InitTex ==
    InitWith(EmptyMesh,
             {[mv |-> Identity4, pr |-> Identity4, vp |-> <<0, 0, 4, 4>>]},
             CanvasChoices)

\* draw_texcoords(mesh, image) when supplied, draw_texcoords(mesh) otherwise.
\* A canvas allocated by the call is the call's own; a canvas drawn on as
\* supplied shares its pixels with the caller's.
DrawTexcoords(supplied) ==
    LET arg == IF supplied THEN image ELSE EmptyMat
        st  == draw_texcoords(mesh, arg)
    IN  /\ given' = arg
        /\ before' = image
        /\ ret' = st.image
        /\ image' = IF empty(arg) THEN image ELSE st.image
        /\ calls' = st.calls
        /\ last' = IF supplied THEN "draw_texcoords(mesh, image)" ELSE "draw_texcoords(mesh)"
        /\ UNCHANGED <<mesh, modelview, projection, viewport, color, order, ccw>>

NextTex ==
    \/ \E t \in TexTriangleChoices : AddTriangle(t)
    \/ DrawWireframe(DefaultColor)
    \/ \E supplied \in BOOLEAN : DrawTexcoords(supplied)

SpecTex == InitTex /\ [][NextTex]_vars

---------------------------------------------------------------------------
(* Classifier harness: one triangle, projected and classified as            *)
(* draw_wireframe does, in every order of its three indices.               *)

InitCcw ==
    \E a, b, c \in GridPoints :
        InitWith([vertices  |-> << <<a[1], a[2], Depths[1]>>, <<b[1], b[2], Depths[2]>>,
                                   <<c[1], c[2], Depths[3]>> >>,
                  tvi       |-> <<>>,
                  texcoords |-> <<>>],
                 TransformChoices, {EmptyMat})

\* The first four lines of the loop body, on the triangle t.
Classify(t) ==
    LET p == Projected(mesh, t, modelview, projection, viewport)
    IN  /\ order' = t
        /\ ccw' = FrontFacing(p[1], p[2], p[3])
        /\ last' = "classify"
        /\ UNCHANGED <<mesh, modelview, projection, viewport, color, image, before,
                       given, ret, calls>>

NextCcw == \E t \in IndexOrders : Classify(t)

SpecCcw == InitCcw /\ [][NextCcw]_vars

---------------------------------------------------------------------------
(* Claims about the orientation test (SpecCcw). *)

\* The screen point of the k-th vertex of the classified triangle.
ScreenPoint(k) == project(mesh.vertices[order[k] + 1], modelview, projection, viewport)

\* Twice the area enclosed by q1, q2, q3 as seen on the screen, by the
\* shoelace formula on (x, -y) (the screen's y grows downwards), times the
\* three denominators: positive when the points run counter-clockwise,
\* negative when clockwise, 0 when they lie on one line or coincide.
SeenArea(q1, q2, q3) ==
      (q2.x * q1.y - q1.x * q2.y) * q3.d
    + (q3.x * q2.y - q2.x * q3.y) * q1.d
    + (q1.x * q3.y - q3.x * q1.y) * q2.d

ClassifiedArea == SeenArea(ScreenPoint(1), ScreenPoint(2), ScreenPoint(3))

\* C2: the orientation test of draw_wireframe is true for screen points
\* wound counter-clockwise (y down), false for clockwise ones, and false for
\* points on one line or coinciding.
C2_OrientationTest ==
    last = "classify" =>
        /\ ClassifiedArea > 0 => ccw
        /\ ClassifiedArea < 0 => ~ccw
        /\ ClassifiedArea = 0 => ~ccw

\* A counter-clockwise triangle under the perspective projection was
\* classified front-facing.
C2_Witness ==
    /\ last = "classify"
    /\ projection = Perspective4
    /\ ClassifiedArea > 0
    /\ ccw

\* order2 is order1 rotated: (p1,p2,p3) -> (p2,p3,p1) or (p3,p1,p2).
IsRotation(order1, order2) ==
    \/ order2 = <<order1[2], order1[3], order1[1]>>
    \/ order2 = <<order1[3], order1[1], order1[2]>>

\* order2 is order1 with two of its entries exchanged.
IsSwap(order1, order2) ==
    \/ order2 = <<order1[2], order1[1], order1[3]>>
    \/ order2 = <<order1[3], order1[2], order1[1]>>
    \/ order2 = <<order1[1], order1[3], order1[2]>>

\* C3 as claimed: classifying the same three points again gives the same
\* result after a rotation and the opposite result after a swap of two
\* points, whatever the points.
C3_AsClaimed ==
    [][(last = "classify" /\ last' = "classify") =>
          /\ IsRotation(order, order') => ccw' = ccw
          /\ IsSwap(order, order') => ccw' = ~ccw]_vars

\* C3 amended: the same result after a rotation; after a swap of two points
\* the opposite result when the three points are not on one line, and false
\* both times when they are.
C3_RotationAndSwap ==
    [][(last = "classify" /\ last' = "classify") =>
          /\ IsRotation(order, order') => ccw' = ccw
          /\ IsSwap(order, order') =>
                IF ClassifiedArea = 0 THEN ~ccw /\ ~ccw' ELSE ccw' = ~ccw]_vars

\* A triangle classified front-facing in an order that is a swap of the
\* order it was given in.
C3_Witness ==
    /\ last = "classify"
    /\ IsSwap(<<0, 1, 2>>, order)
    /\ ClassifiedArea # 0
    /\ ccw

---------------------------------------------------------------------------
(* Claims about draw_wireframe (Spec). *)

\* Every pixel of the canvas m.
Pixels(m) == (0..(m.cols - 1)) \X (0..(m.rows - 1))

\* The screen point of the k-th vertex of the i-th triangle of the mesh.
TriPoint(i, k) ==
    project(mesh.vertices[mesh.tvi[i][k] + 1], modelview, projection, viewport)

\* The pixel a screen point is drawn at: its coordinates cut to integers.
AsPixel(q) == <<Trunc(q.x, q.d), Trunc(q.y, q.d)>>

\* The triangles of the mesh whose screen points are classified
\* counter-clockwise.
Front ==
    {i \in 1..Len(mesh.tvi) :
        are_vertices_ccw_in_screen_space(head2(TriPoint(i, 1)), head2(TriPoint(i, 2)),
                                         head2(TriPoint(i, 3)))}

\* The k-th edge of the i-th triangle, drawn in colour c: p1-p2, p2-p3, p3-p1.
Edge(i, k, c) ==
    [pt1 |-> AsPixel(TriPoint(i, k)), pt2 |-> AsPixel(TriPoint(i, (k % 3) + 1)),
     color |-> c]

\* The n-th front-facing triangle, in mesh order.
NthFront(n) == CHOOSE i \in Front : Cardinality({j \in Front : j <= i}) = n

\* The pixels of the canvas m on the edges of the front-facing triangles.
FrontEdgePixels(m) ==
    UNION {LinePixels(m, Edge(i, k, color).pt1, Edge(i, k, color).pt2) :
              <<i, k>> \in Front \X (1..3)}

\* C1: every front-facing triangle has exactly its three edges drawn, in the
\* colour of the call, and a triangle that is not front-facing has none: each
\* line is drawn as often as it is an edge of a front-facing triangle.  A
\* mesh of one of the front-facing triangles alone, its indices reversed,
\* draws nothing.
C1_AllOrNothing ==
    last = "draw_wireframe" =>
        /\ Len(calls) = 3 * Cardinality(Front)
        /\ \A e \in {calls[n] : n \in 1..Len(calls)}
                    \cup {Edge(i, k, color) : <<i, k>> \in Front \X (1..3)} :
              Cardinality({n \in 1..Len(calls) : calls[n] = e})
                = Cardinality({ik \in Front \X (1..3) : Edge(ik[1], ik[2], color) = e})
        /\ \A i \in Front :
              LET t == mesh.tvi[i]
                  reversed == [mesh EXCEPT !.tvi = << <<t[3], t[2], t[1]>> >>]
              IN  draw_wireframe(before, reversed, modelview, projection, viewport,
                                 color).calls = <<>>

\* A mesh of a front-facing triangle and one that is not was drawn: three
\* lines.
C1_Witness ==
    /\ last = "draw_wireframe"
    /\ Len(mesh.tvi) = 2
    /\ Cardinality(Front) = 1
    /\ Len(calls) = 3
    /\ ~empty(image)

\* C8: the lines are drawn in mesh order, p1-p2, p2-p3, p3-p1 of the first
\* front-facing triangle first; and a pixel holds the colour of the last line
\* drawn over it, or what it held before the call when no line covers it.
C8_DrawOrder ==
    last = "draw_wireframe" =>
        /\ Len(calls) = 3 * Cardinality(Front)
        /\ \A n \in 1..Len(calls) :
              calls[n] = Edge(NthFront(((n - 1) \div 3) + 1), ((n - 1) % 3) + 1, color)
        /\ \A p \in Pixels(image) :
              LET over == {n \in 1..Len(calls) :
                              p \in LinePixels(before, calls[n].pt1, calls[n].pt2)}
              IN  PixelAt(image, p) =
                      IF over = {} THEN PixelAt(before, p)
                      ELSE calls[CHOOSE n \in over : \A o \in over : o <= n].color

\* Two front-facing triangles were drawn, in another colour, over pixels
\* that an earlier call had drawn.
C8_Witness ==
    /\ last = "draw_wireframe"
    /\ Cardinality(Front) = 2
    /\ Len(calls) = 6
    /\ calls[1] # calls[4]
    /\ \E p \in Pixels(image) :
          /\ p \in Written(before)
          /\ PixelAt(before, p) # PixelAt(image, p)

\* C9: draw_wireframe called again with the same arguments, on the canvas
\* that received the first call, leaves the canvas as it was.
C9_Idempotent ==
    [][(last = "draw_wireframe" /\ last' = "draw_wireframe" /\ color' = color
        /\ mesh' = mesh /\ modelview' = modelview /\ projection' = projection
        /\ viewport' = viewport)
          => image' = image]_vars

\* A call that drew lines and changed no pixel: the canvas had received it.
C9_Witness ==
    /\ last = "draw_wireframe"
    /\ calls # <<>>
    /\ Written(image) # {}
    /\ image = before

\* C10: a call of draw_wireframe leaves the size of the canvas, the mesh and
\* the transforms as they were; every pixel keeps its value or takes the
\* colour of the call, and a pixel on no edge of a front-facing triangle
\* keeps its value.
C10_Frame ==
    [][last' = "draw_wireframe" =>
          /\ UNCHANGED <<mesh, modelview, projection, viewport>>
          /\ image'.rows = image.rows
          /\ image'.cols = image.cols
          /\ \A p \in Pixels(image) :
                /\ PixelAt(image', p) \in {PixelAt(image, p), color'}
                /\ p \notin FrontEdgePixels(image) => PixelAt(image', p) = PixelAt(image, p)]_vars

\* A call changed some pixels of the canvas and left others.
C10_Witness ==
    /\ last = "draw_wireframe"
    /\ \E p \in Pixels(image) : PixelAt(image, p) # PixelAt(before, p)
    /\ \E p \in Pixels(image) : p \notin Written(image)

---------------------------------------------------------------------------
(* Claims about draw_texcoords (SpecTex). *)

DrewTexcoords == last \in {"draw_texcoords(mesh, image)", "draw_texcoords(mesh)"}

OpaqueBlack == <<0, 0, 0, 255>>

\* m is draw_texcoords's own canvas with nothing drawn on it: 512 x 512,
\* every pixel opaque black.
IsDefaultCanvas(m) ==
    /\ m.rows = 512
    /\ m.cols = 512
    /\ m.fill = <<OpaqueBlack, OpaqueBlack>>
    /\ Written(m) = {}

\* The pixels of the canvas m that the logged cv::line calls cover.
DrawnPixels(m) ==
    UNION {LinePixels(m, calls[n].pt1, calls[n].pt2) : n \in 1..Len(calls)}

\* C4 as claimed: with no triangle in the mesh no line is drawn;
\* draw_wireframe leaves every pixel as it was, and draw_texcoords returns
\* the supplied canvas as it was given, or the default canvas when none was
\* supplied.
C4_AsClaimed ==
    mesh.tvi = <<>> =>
        /\ last = "draw_wireframe" =>
              /\ calls = <<>>
              /\ \A p \in Pixels(before) : PixelAt(image, p) = PixelAt(before, p)
        /\ last = "draw_texcoords(mesh, image)" => calls = <<>> /\ ret = given
        /\ last = "draw_texcoords(mesh)" => calls = <<>> /\ IsDefaultCanvas(ret)

\* C4 amended: with no triangle in the mesh no line is drawn; draw_wireframe
\* leaves every pixel as it was, and draw_texcoords returns the supplied
\* canvas as it was given when that canvas is not empty, and the default
\* canvas when none, or an empty one (no rows or no columns), was supplied.
C4_NoTriangles ==
    mesh.tvi = <<>> =>
        /\ last = "draw_wireframe" =>
              /\ calls = <<>>
              /\ image.rows = before.rows /\ image.cols = before.cols
              /\ \A p \in Pixels(before) : PixelAt(image, p) = PixelAt(before, p)
        /\ DrewTexcoords =>
              /\ calls = <<>>
              /\ IF empty(given) THEN IsDefaultCanvas(ret) ELSE ret = given

\* draw_texcoords was given a canvas with pixels and no triangle.
C4_Witness ==
    /\ mesh.tvi = <<>>
    /\ last = "draw_texcoords(mesh, image)"
    /\ ~empty(given)
    /\ ret = given

\* C5 as claimed: draw_texcoords allocates exactly when no canvas is
\* supplied.  Without a canvas the result is 512 x 512, opaque black outside
\* the lines drawn; with one, the result has its size and, outside the lines
\* drawn, its pixels, and is the canvas the caller holds.
C5_AsClaimed ==
    /\ last = "draw_texcoords(mesh)" =>
          /\ ret.rows = 512 /\ ret.cols = 512
          /\ ret.fill = <<OpaqueBlack, OpaqueBlack>>
          /\ Written(ret) \subseteq DrawnPixels(ret)
          /\ image = before
    /\ last = "draw_texcoords(mesh, image)" =>
          /\ ret.rows = given.rows /\ ret.cols = given.cols
          /\ \A p \in Pixels(given) \ DrawnPixels(given) : PixelAt(ret, p) = PixelAt(given, p)
          /\ image = ret

\* C5 amended: draw_texcoords allocates exactly when the canvas it receives
\* is empty: none supplied, or one of no rows or no columns.  Then the result
\* is 512 x 512, opaque black outside the lines drawn, and the caller's
\* canvas is left alone; otherwise the result has the supplied canvas's size
\* and, outside the lines drawn, its pixels, and is the canvas the caller
\* holds.
C5_Canvas ==
    DrewTexcoords =>
        IF empty(given)
        THEN /\ ret.rows = 512 /\ ret.cols = 512
             /\ ret.fill = <<OpaqueBlack, OpaqueBlack>>
             /\ Written(ret) \subseteq DrawnPixels(ret)
             /\ image = before
        ELSE /\ ret.rows = given.rows /\ ret.cols = given.cols
             /\ \A p \in Pixels(given) \ DrawnPixels(given) :
                   PixelAt(ret, p) = PixelAt(given, p)
             /\ image = ret

\* Lines were drawn over a supplied canvas that a wireframe had been drawn
\* on, and left some of its pixels.
C5_Witness ==
    /\ last = "draw_texcoords(mesh, image)"
    /\ Written(given) # {}
    /\ Written(ret) # Written(given)
    /\ \E p \in Written(given) : p \notin DrawnPixels(given)

\* The texture coordinate of the vertex numbered i.
Texcoord(i) == mesh.texcoords[i + 1]

\* The pixel pt is (U * width, V * height) of the texture coordinate t,
\* rounded to a nearest integer.
IsPixelOf(pt, t, m) ==
    /\ 2 * Abs(pt[1] * t.d - t.u * m.cols) <= t.d
    /\ 2 * Abs(pt[2] * t.d - t.v * m.rows) <= t.d

\* C6: draw_texcoords draws three lines for every triangle of the mesh,
\* whatever its winding: uv0-uv1, uv1-uv2, uv2-uv0, each end at U times the
\* width and V times the height of the canvas.
C6_ThreeEdgesEach ==
    DrewTexcoords =>
        /\ Len(calls) = 3 * Len(mesh.tvi)
        /\ \A i \in 1..Len(mesh.tvi), k \in 1..3 :
              LET call == calls[3 * (i - 1) + k]
              IN  /\ IsPixelOf(call.pt1, Texcoord(mesh.tvi[i][k]), ret)
                  /\ IsPixelOf(call.pt2, Texcoord(mesh.tvi[i][(k % 3) + 1]), ret)

\* A triangle and the same triangle reversed were drawn on a canvas that is
\* not square.
C6_Witness ==
    /\ last = "draw_texcoords(mesh, image)"
    /\ mesh.tvi = << <<0, 1, 2>>, <<2, 1, 0>> >>
    /\ ret.rows # ret.cols
    /\ Len(calls) = 6

\* C7: every line of draw_texcoords has one and the same colour, whatever
\* the mesh and the canvas, and that colour is opaque: the pixels drawn have
\* alpha 255; the default colour of draw_wireframe is opaque green.
C7_OpaqueAccent ==
    /\ DefaultColor = <<0, 255, 0, 255>>
    /\ DrewTexcoords =>
          /\ \A n \in 1..Len(calls) : calls[n].color = calls[1].color
          /\ \A n \in 1..Len(calls) : calls[n].color[4] = 255
          /\ \A p \in DrawnPixels(ret) : PixelAt(ret, p)[4] = 255

===========================================================================
